---- MODULE Spec2Model ----
(***************************************************************************)
(* Model of the hospital-inventory -> SAP conversion pipeline              *)
(* (backend/processing.py, backend/mappings.py, run_batch.py,              *)
(* batch_job.py).                                                          *)
(*                                                                         *)
(* Representation.  A Python str is a sequence of one-character strings    *)
(* ("kg" is <<"k","g">>), so that strip(), upper(), len() and slicing are  *)
(* computed, not assumed.  A pandas null (NaN / None) is the value NaN     *)
(* below, which is no str.  A pandas Timestamp is an integer               *)
(* YYYYMMDD * 100 + hour; NaT is a negative integer.  A DataFrame is a     *)
(* record [columns |-> sequence of column labels, rows |-> sequence of     *)
(* rows], a row being a function from the column labels to cells; the      *)
(* index is always the default 0..n-1 (every frame here comes from         *)
(* pd.merge or from reset_index(drop=True)).                               *)
(***************************************************************************)
EXTENDS Integers, Sequences, FiniteSets, TLC

VARIABLES
    settings,        \* SAPDataConverter.settings (the loaded configuration)
    disk,            \* the files beside the inputs: [folder |-> the mapping workbooks by
                     \* file name, template |-> the template workbook]
    memory_cache,    \* MappingService._memory_cache
    last_call,       \* the last get_mapping_dict call: key, table returned, workbook read or not
    resolved,        \* history: first table returned for each key resolved so far
    files,           \* BatchExecutor.run: the matched files
    idx,             \* BatchExecutor.run: position of the loop in files (1-based)
    log_records,     \* BatchExecutor.run: log_records
    calls,           \* history: the files converter.run was invoked on, in order
    pc,              \* BatchExecutor.run: "idle", "loop", "done"
    stage,           \* SAPDataConverter.run: position in the pipeline
    date_override,   \* argument of run
    ref_date,        \* run: ref_date
    site_id,         \* run: site_id
    input_data,      \* the input file of the current run as _load_raw_data found it
    merged_data,     \* run: merged_data
    clean_data,      \* run: clean_data
    sap_data,        \* run: sap_data
    final_data,      \* run: the value returned
    ran,             \* history: the pipeline stages entered by the current run, in order
    rule_log         \* history: the rules _process_fields evaluated and those that raised

vars == <<settings, disk, memory_cache, last_call, resolved, files, idx, log_records,
          calls, pc, stage, date_override, ref_date, site_id, input_data, merged_data,
          clean_data, sap_data, final_data, ran, rule_log>>

-----------------------------------------------------------------------------
(* Strings *)

NaN == <<"NaN">>
NaT == -1

Whitespace == {" ", "\t"}

LowerLetters == <<"a","b","c","d","e","f","g","h","i","j","k","l","m",
                  "n","o","p","q","r","s","t","u","v","w","x","y","z">>
UpperLetters == <<"A","B","C","D","E","F","G","H","I","J","K","L","M",
                  "N","O","P","Q","R","S","T","U","V","W","X","Y","Z">>

\* str.upper() on one character
UpperChar(c) ==
    IF \E i \in 1..Len(LowerLetters) : LowerLetters[i] = c
    THEN UpperLetters[CHOOSE i \in 1..Len(LowerLetters) : LowerLetters[i] = c]
    ELSE c

\* str.upper()
Upper(s) == [i \in 1..Len(s) |-> UpperChar(s[i])]

SetMin(S) == CHOOSE x \in S : \A y \in S : x <= y
SetMax(S) == CHOOSE x \in S : \A y \in S : x >= y

\* str.strip()
Strip(s) ==
    LET keep == {i \in 1..Len(s) : s[i] \notin Whitespace}
    IN  IF keep = {} THEN <<>> ELSE SubSeq(s, SetMin(keep), SetMax(keep))

\* s[:n] for n >= 0
Prefix(s, n) == SubSeq(s, 1, IF n < Len(s) THEN n ELSE Len(s))

\* Series.str.strip() / Series.fillna(fill) on one cell
str_strip(v) == IF v = NaN THEN NaN ELSE Strip(v)
fillna(v, fill) == IF v = NaN THEN fill ELSE v

\* the literals of the source
J == <<"J">>
ERR == <<"E","R","R">>
ERROR == <<"E","R","R","O","R">>
ZH01 == <<"Z","H","0","1">>
WERKS == <<"W","E","R","K","S">>
ArtikelNr == <<"A","r","t","i","k","e","l","N","r">>
Actief == <<"A","c","t","i","e","f">>
EindDat == <<"E","i","n","d","D","a","t">>
EindDat_Check == <<"E","i","n","d","D","a","t","_","C","h","e","c","k">>
Suffix_x == <<"_","x">>
Suffix_y == <<"_","y">>

-----------------------------------------------------------------------------
(* Sequences and frames *)

Range(s) == {s[i] : i \in 1..Len(s)}

Contains(s, x) == \E i \in 1..Len(s) : s[i] = x

\* the subsequence of s at the positions satisfying keep, in order
RECURSIVE SelectIdx(_, _, _)
SelectIdx(s, keep, i) ==
    IF i > Len(s) THEN <<>>
    ELSE (IF i \in keep THEN <<s[i]>> ELSE <<>>) \o SelectIdx(s, keep, i + 1)

\* pd.DataFrame()
EmptyFrame == [columns |-> <<>>, rows |-> <<>>]

\* A test that finds no frame empty
NeverEmpty(df) == FALSE

\* A local variable: x is evaluated once and F is applied to its value
Bind(x, F(_)) == CHOOSE y \in {F(v) : v \in {x}} : TRUE

\* DataFrame.empty: some axis has length 0
IsEmpty(df) == Len(df.columns) = 0 \/ Len(df.rows) = 0

\* df[col] as a sequence of cells
Column(df, col) == [i \in 1..Len(df.rows) |-> df.rows[i][col]]

\* df[col] = <scalar>: broadcast over the frame's index (no rows when the index is empty)
SetScalar(df, col, v) ==
    Bind(df, LAMBDA d :
        [columns |-> IF Contains(d.columns, col) THEN d.columns ELSE Append(d.columns, col),
         rows    |-> [i \in 1..Len(d.rows) |->
                        [c \in Range(d.columns) \cup {col} |->
                            IF c = col THEN v ELSE d.rows[i][c]]]])

\* df[col] = <Series ser with index 0..Len(ser)-1>.  A frame whose index is empty takes
\* the index of a non-empty Series (DataFrame._ensure_valid_index) and its existing
\* columns become NaN; otherwise the Series is aligned on the frame's index.
SetSeries(df, col, ser) ==
    Bind(<<df, ser>>, LAMBDA a :
        LET d    == a[1]
            s    == a[2]
            cols == IF Contains(d.columns, col) THEN d.columns ELSE Append(d.columns, col)
            n    == IF Len(d.rows) = 0 THEN Len(s) ELSE Len(d.rows)
        IN  [columns |-> cols,
             rows    |-> [i \in 1..n |->
                            [c \in Range(cols) |->
                                IF c = col THEN (IF i <= Len(s) THEN s[i] ELSE NaN)
                                ELSE IF Len(d.rows) = 0 THEN NaN
                                ELSE d.rows[i][c]]]])

-----------------------------------------------------------------------------
(* Dates *)

Digits == <<"0","1","2","3","4","5","6","7","8","9">>
IsDigit(c) == \E i \in 1..10 : Digits[i] = c
DigitVal(c) == (CHOOSE i \in 1..10 : Digits[i] = c) - 1

\* pd.to_datetime on one str of the form YYYY-MM-DD: the Timestamp at midnight of that
\* day, or NaT when the text is not such a date.
ParseDate(s) ==
    IF /\ Len(s) = 10
       /\ s[5] = "-" /\ s[8] = "-"
       /\ \A i \in {1,2,3,4,6,7,9,10} : IsDigit(s[i])
    THEN LET y == DigitVal(s[1]) * 1000 + DigitVal(s[2]) * 100
                  + DigitVal(s[3]) * 10 + DigitVal(s[4])
             m == DigitVal(s[6]) * 10 + DigitVal(s[7])
             d == DigitVal(s[9]) * 10 + DigitVal(s[10])
         IN  IF m \in 1..12 /\ d \in 1..31
             THEN ((y * 100 + m) * 100 + d) * 100
             ELSE NaT
    ELSE NaT

\* pd.to_datetime(cell, errors='coerce')
to_datetime_coerce(v) == IF v = NaN THEN NaT ELSE ParseDate(v)

-----------------------------------------------------------------------------
(* SAPDataConverter._filter_active_records *)

\* Result of a call that may raise: [ok |-> FALSE] stands for an exception escaping.
Raised == [ok |-> FALSE]
Returned(v) == [ok |-> TRUE, val |-> v]

\* line 55: df['EindDat_Check'] = pd.to_datetime(df['EindDat'], errors='coerce'),
\* written into the frame passed in
WithCheckColumn(df) ==
    LET checks == [i \in 1..Len(df.rows) |-> to_datetime_coerce(df.rows[i][EindDat])]
        cols   == IF Contains(df.columns, EindDat_Check) THEN df.columns
                  ELSE Append(df.columns, EindDat_Check)
    IN  [columns |-> cols,
         rows    |-> [i \in 1..Len(df.rows) |->
                        [c \in Range(cols) |->
                            IF c = EindDat_Check THEN checks[i] ELSE df.rows[i][c]]]]

\* A date test that drops the records ending at the reference date itself
mask_date_strict(row, reference_date) ==
    \/ row[EindDat_Check] = NaT
    \/ (reference_date # NaT /\ row[EindDat_Check] > reference_date)

\* lines 57-58 on one row: mask_active & mask_date.  A comparison with NaT is False.
mask_active(row) == row[Actief] = J
mask_date(row, reference_date) ==
    \/ row[EindDat_Check] = NaT
    \/ (reference_date # NaT /\ row[EindDat_Check] >= reference_date)

\* lines 53-60.  Returns the frame returned (or Raised) and the frame passed in as the
\* call leaves it.
filter_active_records(df, reference_date) ==
    IF ~Contains(df.columns, EindDat)
    THEN [out |-> Raised, df |-> df]
    ELSE LET df1 == WithCheckColumn(df)
         IN  IF ~Contains(df1.columns, Actief)
             THEN [out |-> Raised, df |-> df1]
             ELSE LET keep == {i \in 1..Len(df1.rows) :
                                  mask_active(df1.rows[i])
                                  /\ mask_date(df1.rows[i], reference_date)}
                  IN  [out |-> Returned([columns |-> df1.columns,
                                         rows    |-> SelectIdx(df1.rows, keep, 1)]),
                       df  |-> df1]

-----------------------------------------------------------------------------
(* MappingService (backend/mappings.py) *)

\* Python dict, .get with a default, and the key test `k in d`
EmptyDict == [k \in {} |-> k]
Has(d, k) == k \in DOMAIN d
Get(d, k, default) == IF k \in DOMAIN d THEN d[k] ELSE default

\* rule.get('sheet_name', 0): the first sheet of the workbook
FirstSheet == <<"#0">>

\* pd.read_excel(full_path, sheet_name=sheet, dtype=str) followed by
\* df.columns = df.columns.str.strip() (lines 24-25).  A workbook is
\* [corrupt, sheets]; a sheet is [name, header, rows], rows being sequences of cells.
SheetOf(wb, sheet) ==
    IF sheet = FirstSheet THEN wb.sheets[1]
    ELSE wb.sheets[CHOOSE i \in 1..Len(wb.sheets) : wb.sheets[i].name = sheet]

ReadFails(wb, sheet) ==
    \/ wb.corrupt
    \/ (sheet = FirstSheet /\ Len(wb.sheets) = 0)
    \/ (sheet # FirstSheet /\ ~\E i \in 1..Len(wb.sheets) : wb.sheets[i].name = sheet)

StrippedHeader(sh) == [i \in 1..Len(sh.header) |-> Strip(sh.header[i])]

ColumnIndex(header, name) == CHOOSE i \in 1..Len(header) : header[i] = name

\* A table in which the first of the rows with the same key stays
BuildMapping_first_wins(sh, key_header, val_header) ==
    LET header == StrippedHeader(sh)
        kc     == ColumnIndex(header, key_header)
        vc     == ColumnIndex(header, val_header)
        keys   == [i \in 1..Len(sh.rows) |-> Upper(Strip(fillna(sh.rows[i][kc], <<>>)))]
        vals   == [i \in 1..Len(sh.rows) |->
                     IF vc = kc THEN Strip(keys[i])
                     ELSE Strip(fillna(sh.rows[i][vc], <<>>))]
        valid  == {i \in 1..Len(sh.rows) : keys[i] # <<>>}
    IN  [k \in {keys[i] : i \in valid} |-> vals[SetMin({i \in valid : keys[i] = k})]]

\* lines 30-37: normalise both columns, drop the rows with an empty key, dict(zip(...))
\* (a later row overwrites an earlier one with the same key)
BuildMapping(sh, key_header, val_header) ==
    LET header == StrippedHeader(sh)
        kc     == ColumnIndex(header, key_header)
        vc     == ColumnIndex(header, val_header)
        keys   == [i \in 1..Len(sh.rows) |-> Upper(Strip(fillna(sh.rows[i][kc], <<>>)))]
        vals   == [i \in 1..Len(sh.rows) |->
                     IF vc = kc THEN Strip(keys[i])
                     ELSE Strip(fillna(sh.rows[i][vc], <<>>))]
        valid  == {i \in 1..Len(sh.rows) : keys[i] # <<>>}
    IN  [k \in {keys[i] : i \in valid} |-> vals[SetMax({i \in valid : keys[i] = k})]]

\* line 38: self._memory_cache[cache_key] = result
Store(cache, cache_key, table) ==
    [k \in DOMAIN cache \cup {cache_key} |-> IF k = cache_key THEN table ELSE cache[k]]

\* A service that loads the workbook on every call, cached or not
get_mapping_dict_reload(cache, folder, filename, sheet, key_header, val_header) ==
    LET cache_key == <<filename, sheet, key_header, val_header>>
    IN  IF filename \notin DOMAIN folder
        THEN [table |-> EmptyDict, cache |-> cache, read |-> FALSE]
        ELSE IF ReadFails(folder[filename], sheet)
        THEN [table |-> EmptyDict, cache |-> cache, read |-> TRUE]
        ELSE LET sh     == SheetOf(folder[filename], sheet)
                 header == StrippedHeader(sh)
             IN  IF ~Contains(header, key_header) \/ ~Contains(header, val_header)
                 THEN [table |-> EmptyDict, cache |-> cache, read |-> TRUE]
                 ELSE LET result == BuildMapping(sh, key_header, val_header)
                      IN  [table |-> result,
                           cache |-> Store(cache, cache_key, result),
                           read  |-> TRUE]

\* get_mapping_dict, lines 12-42.  folder: the workbooks under base_folder, by file name.
\* Returns the table, the cache after the call, and whether the workbook was read.
get_mapping_dict(cache, folder, filename, sheet, key_header, val_header) ==
    LET cache_key == <<filename, sheet, key_header, val_header>>
    IN  IF cache_key \in DOMAIN cache
        THEN [table |-> cache[cache_key], cache |-> cache, read |-> FALSE]
        ELSE IF filename \notin DOMAIN folder
        THEN [table |-> EmptyDict, cache |-> cache, read |-> FALSE]
        ELSE IF ReadFails(folder[filename], sheet)
        THEN [table |-> EmptyDict, cache |-> cache, read |-> TRUE]
        ELSE LET sh     == SheetOf(folder[filename], sheet)
                 header == StrippedHeader(sh)
             IN  IF ~Contains(header, key_header) \/ ~Contains(header, val_header)
                 THEN [table |-> EmptyDict, cache |-> cache, read |-> TRUE]
                 ELSE LET result == BuildMapping(sh, key_header, val_header)
                      IN  [table |-> result,
                           cache |-> Store(cache, cache_key, result),
                           read  |-> TRUE]

-----------------------------------------------------------------------------
(* Field rules (backend/processing.py, lines 62-138) *)

\* A rule is a Python dict: a function from the keys it has to their values.  'type'
\* and 'fallback_strategy' are only compared, so they are TLA+ strings; column names,
\* file names and cell values are strs as above.  A helper returns
\* [ok, target, cache, resolves]: whether it returned normally, df_target and the mapping
\* cache as it leaves them, and the calls of get_mapping_dict it made, in order, each as
\* [key, table, read].

\* lines 92-98 / 119-125: the mapping table of a lookup rule
RuleTable(rule, cache, folder, val_header) ==
    IF Has(rule, "map_file")
    THEN get_mapping_dict(cache, folder, rule["map_file"],
                          Get(rule, "sheet_name", FirstSheet),
                          Get(rule, "map_key", NaN), val_header)
    ELSE [table |-> EmptyDict, cache |-> cache, read |-> FALSE]

\* the call of get_mapping_dict a lookup rule made, if any, and what it returned (m)
RuleResolves(rule, val_header, m) ==
    IF Has(rule, "map_file")
    THEN <<[key   |-> <<rule["map_file"], Get(rule, "sheet_name", FirstSheet),
                        Get(rule, "map_key", NaN), val_header>>,
            table |-> m.table,
            read  |-> m.read]>>
    ELSE <<>>

\* line 101-102 on one cell: source_values.map(map_dict)
MappedValue(v, map_dict) ==
    LET key == Upper(Strip(fillna(v, <<>>)))
    IN  IF key \in DOMAIN map_dict THEN map_dict[key] ELSE NaN

\* A lookup that ignores the fallback strategy
MapCellNoFallback(v, map_dict, rule) == fillna(MappedValue(v, map_dict), ERR)

\* lines 105-111 on one cell
MapCell(v, map_dict, rule) ==
    LET strategy == Get(rule, "fallback_strategy", "error")
    IN  IF strategy = "source_value" THEN fillna(MappedValue(v, map_dict), v)
        ELSE IF strategy = "default_value"
        THEN fillna(MappedValue(v, map_dict), Get(rule, "default_value", <<>>))
        ELSE fillna(MappedValue(v, map_dict), ERR)

\* _apply_mapping_rule, lines 88-111
apply_mapping_rule(source_df, target_df, target_col, rule, cache, folder) ==
    IF ~Has(rule, "source")
    THEN [ok |-> FALSE, target |-> target_df, cache |-> cache, resolves |-> <<>>]
    ELSE Bind(RuleTable(rule, cache, folder, Get(rule, "map_value", NaN)), LAMBDA m :
         LET src_col  == rule["source"]
             resolves == RuleResolves(rule, Get(rule, "map_value", NaN), m)
         IN  IF ~Contains(source_df.columns, src_col)
             THEN [ok |-> FALSE, target |-> target_df, cache |-> m.cache,
                   resolves |-> resolves]
             ELSE [ok       |-> TRUE,
                   target   |-> SetSeries(target_df, target_col,
                                    [i \in 1..Len(source_df.rows) |->
                                        MapCell(source_df.rows[i][src_col], m.table, rule)]),
                   cache    |-> m.cache,
                   resolves |-> resolves])

\* the default of rule.get('max_length', 40)
DefaultMaxLength == 40

\* A length test that also rewrites values exactly at the limit
transform_off_by_one(val, limit, fallback, map_dict) ==
    LET s_val == IF val # NaN THEN Strip(val) ELSE <<>>
    IN  IF Len(s_val) >= limit
        THEN IF Upper(s_val) \in DOMAIN map_dict THEN map_dict[Upper(s_val)]
             ELSE IF fallback = "truncate" THEN Prefix(s_val, limit)
             ELSE s_val
        ELSE s_val

\* transform, lines 127-136
transform(val, limit, fallback, map_dict) ==
    LET s_val == IF val # NaN THEN Strip(val) ELSE <<>>
    IN  IF Len(s_val) > limit
        THEN IF Upper(s_val) \in DOMAIN map_dict THEN map_dict[Upper(s_val)]
             ELSE IF fallback = "truncate" THEN Prefix(s_val, limit)
             ELSE s_val
        ELSE s_val

\* _apply_length_logic, lines 113-138
apply_length_logic(source_df, target_df, target_col, rule, cache, folder) ==
    IF ~Has(rule, "source") \/ (Has(rule, "map_file") /\ ~Has(rule, "map_value"))
    THEN [ok |-> FALSE, target |-> target_df, cache |-> cache, resolves |-> <<>>]
    ELSE Bind(RuleTable(rule, cache, folder, Get(rule, "map_value", NaN)), LAMBDA m :
         LET src_col  == rule["source"]
             limit    == Get(rule, "max_length", DefaultMaxLength)
             fallback == Get(rule, "fallback_strategy", "truncate")
             resolves == RuleResolves(rule, Get(rule, "map_value", NaN), m)
         IN  IF ~Contains(source_df.columns, src_col)
             THEN [ok |-> FALSE, target |-> target_df, cache |-> m.cache,
                   resolves |-> resolves]
             ELSE [ok       |-> TRUE,
                   target   |-> SetSeries(target_df, target_col,
                                    [i \in 1..Len(source_df.rows) |->
                                        transform(source_df.rows[i][src_col], limit,
                                                  fallback, m.table)]),
                   cache    |-> m.cache,
                   resolves |-> resolves])

\* lines 68-81: the body of the try for one rule
apply_rule(source_df, target_df, target_col, rule, site_code, cache, folder) ==
    LET r_type == Get(rule, "type", "None")
    IN  IF r_type = "filename_extraction"
        THEN [ok |-> TRUE, target |-> SetScalar(target_df, target_col, site_code),
              cache |-> cache, resolves |-> <<>>]
        ELSE IF r_type = "direct"
        THEN IF Has(rule, "source") /\ Contains(source_df.columns, rule["source"])
             THEN [ok |-> TRUE,
                   target |-> SetSeries(target_df, target_col,
                                        Column(source_df, rule["source"])),
                   cache |-> cache, resolves |-> <<>>]
             ELSE [ok |-> FALSE, target |-> target_df, cache |-> cache, resolves |-> <<>>]
        ELSE IF r_type = "map"
        THEN apply_mapping_rule(source_df, target_df, target_col, rule, cache, folder)
        ELSE IF r_type = "logic_length"
        THEN apply_length_logic(source_df, target_df, target_col, rule, cache, folder)
        ELSE [ok |-> TRUE, target |-> target_df, cache |-> cache, resolves |-> <<>>]

\* lines 67-84: the loop from rule k on.  field_rules is the ordered sequence of
\* <<target_col, rule>> of settings['mappings'].  acc is
\* [target, cache, resolves, evaluated, failed]: df_target, the cache, the calls of
\* get_mapping_dict, and the targets whose rule was evaluated / raised, in order.
RECURSIVE process_rules(_, _, _, _, _, _)
process_rules(field_rules, k, df_source, site_code, folder, acc) ==
    IF k > Len(field_rules) THEN acc
    ELSE LET target_col == field_rules[k][1]
         IN  Bind(apply_rule(df_source, acc.target, target_col, field_rules[k][2],
                             site_code, acc.cache, folder), LAMBDA r :
             Bind([target    |-> IF r.ok THEN r.target
                                 ELSE SetScalar(r.target, target_col, ERROR),
                   cache     |-> r.cache,
                   resolves  |-> acc.resolves \o r.resolves,
                   evaluated |-> Append(acc.evaluated, target_col),
                   failed    |-> IF r.ok THEN acc.failed
                                 ELSE Append(acc.failed, target_col)], LAMBDA next :
             process_rules(field_rules, k + 1, df_source, site_code, folder, next)))

\* _process_fields, lines 62-86
process_fields(config, df_source, site_code, cache, folder) ==
    process_rules(Get(config, "mappings", <<>>), 1, df_source, site_code, folder,
                  [target |-> EmptyFrame, cache |-> cache, resolves |-> <<>>,
                   evaluated |-> <<>>, failed |-> <<>>])

-----------------------------------------------------------------------------
(* The legacy conversion (src/etl_logic.py): the rule loop of run_conversion, lines
   64-106.  Its other stages have the statements of the stages above. *)

\* load_excel_mapping, lines 14-27
load_excel_mapping(folder, filename, sheet_name, key_col, val_col) ==
    IF filename \notin DOMAIN folder THEN EmptyDict
    ELSE IF ReadFails(folder[filename], sheet_name) THEN EmptyDict
    ELSE LET sh     == SheetOf(folder[filename], sheet_name)
             header == StrippedHeader(sh)
         IN  IF ~Contains(header, key_col) \/ ~Contains(header, val_col) THEN EmptyDict
             ELSE BuildMapping(sh, key_col, val_col)

\* line 71: cache_key = f"{fname}_{sheet}", the first sheet being the number 0
legacy_cache_key(fname, sheet) ==
    fname \o <<"_">> \o (IF sheet = FirstSheet THEN <<"0">> ELSE sheet)

\* lines 67-75, ahead of the try: the table of the rule, [ok, table, cache].  A rule
\* with a map_file whose table is not cached yet reads config['mapping_folder'],
\* rules['map_key'] and rules['map_value']; a missing key raises out of run_conversion.
legacy_table(config, rules, mapping_cache, folder) ==
    IF ~Has(rules, "map_file")
    THEN [ok |-> TRUE, table |-> EmptyDict, cache |-> mapping_cache]
    ELSE LET sheet     == Get(rules, "sheet_name", FirstSheet)
             cache_key == legacy_cache_key(rules["map_file"], sheet)
         IN  IF cache_key \in DOMAIN mapping_cache
             THEN [ok |-> TRUE, table |-> mapping_cache[cache_key], cache |-> mapping_cache]
             ELSE IF \/ ~Has(config, "mapping_folder")
                     \/ ~Has(rules, "map_key")
                     \/ ~Has(rules, "map_value")
             THEN [ok |-> FALSE, table |-> EmptyDict, cache |-> mapping_cache]
             ELSE LET t == load_excel_mapping(folder, rules["map_file"], sheet,
                                              rules["map_key"], rules["map_value"])
                  IN  [ok |-> TRUE, table |-> t, cache |-> Store(mapping_cache, cache_key, t)]

\* logic, lines 96-103: `if res` takes an empty table value for a miss
logic(val, max_len, fallback, mapping_dict) ==
    LET s_val == IF val # NaN THEN Strip(val) ELSE <<>>
        res   == Get(mapping_dict, Upper(s_val), <<>>)
    IN  IF Len(s_val) > max_len
        THEN IF res # <<>> THEN res
             ELSE IF fallback = "truncate" THEN Prefix(s_val, max_len)
             ELSE s_val
        ELSE s_val

\* lines 77-104: the body of the try for one rule, [ok, target]
legacy_rule(df_filtered, sap_output, sap_field, rules, vestiging_code, mapping_dict) ==
    IF ~Has(rules, "type") THEN [ok |-> FALSE, target |-> sap_output]
    ELSE IF rules["type"] = "filename_extraction"
    THEN [ok |-> TRUE, target |-> SetScalar(sap_output, sap_field, vestiging_code)]
    ELSE IF rules["type"] \notin {"direct", "map", "logic_length"}
    THEN [ok |-> TRUE, target |-> sap_output]
    ELSE IF ~Has(rules, "source") \/ ~Contains(df_filtered.columns, rules["source"])
    THEN [ok |-> FALSE, target |-> sap_output]
    ELSE LET col == rules["source"]
         IN  [ok     |-> TRUE,
              target |-> SetSeries(sap_output, sap_field,
                             [i \in 1..Len(df_filtered.rows) |->
                                 IF rules["type"] = "direct" THEN df_filtered.rows[i][col]
                                 ELSE IF rules["type"] = "map"
                                 THEN MapCell(df_filtered.rows[i][col], mapping_dict, rules)
                                 ELSE logic(df_filtered.rows[i][col],
                                            Get(rules, "max_length", DefaultMaxLength),
                                            Get(rules, "fallback_strategy", "truncate"),
                                            mapping_dict)])]

\* lines 66-106: the loop from rule k on; acc is [ok, target, cache]
RECURSIVE legacy_rules(_, _, _, _, _, _, _)
legacy_rules(config, field_rules, k, df_filtered, vestiging_code, folder, acc) ==
    IF k > Len(field_rules) \/ ~acc.ok THEN acc
    ELSE LET sap_field == field_rules[k][1]
             t == legacy_table(config, field_rules[k][2], acc.cache, folder)
             r == legacy_rule(df_filtered, acc.target, sap_field, field_rules[k][2],
                              vestiging_code, t.table)
         IN  legacy_rules(config, field_rules, k + 1, df_filtered, vestiging_code, folder,
                 IF ~t.ok THEN [ok |-> FALSE, target |-> acc.target, cache |-> acc.cache]
                 ELSE [ok     |-> TRUE,
                       target |-> IF r.ok THEN r.target
                                  ELSE SetScalar(r.target, sap_field, ERROR),
                       cache  |-> t.cache])

\* lines 64-106: sap_output after the rules, or the exception that escaped
legacy_fields(config, df_filtered, vestiging_code, folder) ==
    IF ~Has(config, "mappings") THEN Raised
    ELSE LET r == legacy_rules(config, config["mappings"], 1, df_filtered, vestiging_code,
                               folder, [ok |-> TRUE, target |-> EmptyFrame,
                                        cache |-> EmptyDict])
         IN  IF r.ok THEN Returned(r.target) ELSE Raised

-----------------------------------------------------------------------------
(* Custom calculations (lines 140-150) *)

\* A formula is evaluated by eval() with the one binding `row`.  Three shapes of
\* formula are modelled: "row['c']" (kind "field"), a literal (kind "const") and
\* "row['c'].upper()" (kind "upper", which raises on a null cell).
eval_formula(formula, row) ==
    IF formula.kind = "const" THEN Returned(formula.value)
    ELSE IF formula.col \notin DOMAIN row THEN Raised
    ELSE IF formula.kind = "field" THEN Returned(row[formula.col])
    ELSE IF row[formula.col] = NaN THEN Raised
    ELSE Returned(Upper(row[formula.col]))

\* A calculation that keeps the results of the rows evaluated before the one that raised
apply_calculation_partial(c, source_df, target_df) ==
    LET results == [i \in 1..Len(source_df.rows) |->
                        eval_formula(c["formula"], source_df.rows[i])]
        done(i) == \A j \in 1..i : results[j].ok
    IN  IF ~Has(c, "formula") \/ ~Has(c, "target_column") THEN target_df
        ELSE IF ~results[1].ok THEN target_df
        ELSE SetSeries(target_df, c["target_column"],
                       [i \in 1..Len(source_df.rows) |->
                           IF done(i) THEN results[i].val ELSE NaN])

\* lines 144-149 for one calculation: source_df.apply(..., axis=1) evaluates every row
\* before anything is assigned; any exception leaves target_df as it was
apply_calculation(c, source_df, target_df) ==
    LET results == [i \in 1..Len(source_df.rows) |->
                        eval_formula(c["formula"], source_df.rows[i])]
    IN  IF ~Has(c, "formula") \/ ~Has(c, "target_column") THEN target_df
        ELSE IF \E i \in 1..Len(source_df.rows) : ~results[i].ok THEN target_df
        ELSE SetSeries(target_df, c["target_column"],
                       [i \in 1..Len(source_df.rows) |-> results[i].val])

RECURSIVE run_calcs(_, _, _, _)
run_calcs(calcs, k, source_df, target_df) ==
    IF k > Len(calcs) THEN target_df
    ELSE run_calcs(calcs, k + 1, source_df, apply_calculation(calcs[k], source_df, target_df))

\* _run_calculations, lines 140-150
run_calculations(config, source_df, target_df) ==
    run_calcs(Get(config, "custom_calculations", <<>>), 1, source_df, target_df)

-----------------------------------------------------------------------------
(* Template alignment (lines 152-175) *)

\* A header cell of the template that is no str (a number, a date)
NumCell == <<"#num">>

\* line 161: valid_cols = [c.strip() for c in tpl_df.columns if isinstance(c, str)]
RECURSIVE valid_cols(_)
valid_cols(header) ==
    IF header = <<>> THEN <<>>
    ELSE (IF Head(header) # NumCell THEN <<Strip(Head(header))>> ELSE <<>>)
         \o valid_cols(Tail(header))

\* An alignment that leaves the cells of the added columns null
reindex_no_fill(df, cols) ==
    [columns |-> cols,
     rows    |-> [i \in 1..Len(df.rows) |->
                    [c \in Range(cols) |->
                        IF Contains(df.columns, c) THEN fillna(df.rows[i][c], <<>>)
                        ELSE NaN]]]

\* An alignment that only adds the missing columns and keeps the frame's own order
reindex_keep_extras(df, cols) ==
    LET missing == SelectIdx(cols, {i \in 1..Len(cols) : ~Contains(df.columns, cols[i])}, 1)
    IN  [columns |-> df.columns \o missing,
         rows    |-> [i \in 1..Len(df.rows) |->
                        [c \in Range(df.columns) \cup Range(missing) |->
                            IF Contains(df.columns, c) THEN fillna(df.rows[i][c], <<>>)
                            ELSE <<>>]]]

\* line 164: df_target.reindex(columns=valid_cols).fillna("")
reindex_fillna(df, cols) ==
    [columns |-> cols,
     rows    |-> [i \in 1..Len(df.rows) |->
                    [c \in Range(cols) |->
                        IF Contains(df.columns, c) THEN fillna(df.rows[i][c], <<>>)
                        ELSE <<>>]]]

\* _enforce_template, lines 152-175.  tpl is the template workbook as pd.read_excel
\* finds it: [readable, header], header being the cells of its fifth row.
enforce_template(df_target, site_code, tpl) ==
    IF ~tpl.readable THEN df_target
    ELSE LET df_final == reindex_fillna(df_target, valid_cols(tpl.header))
         IN  IF Contains(df_final.columns, WERKS)
             THEN SetScalar(df_final, WERKS, site_code)
             ELSE df_final

-----------------------------------------------------------------------------
(* Site code and ingestion (lines 22-51) *)

\* Path.stem of a file name: the name without its last suffix
Stem(name) ==
    LET dots == {i \in 1..Len(name) : name[i] = "."}
    IN  IF dots = {} \/ SetMax(dots \cup {0}) = 1 \/ SetMax(dots \cup {0}) = Len(name)
        THEN name
        ELSE SubSeq(name, 1, SetMax(dots) - 1)

\* s.split('_')[-1]
LastPart(s) ==
    LET seps == {i \in 1..Len(s) : s[i] = "_"}
    IN  IF seps = {} THEN s ELSE SubSeq(s, SetMax(seps) + 1, Len(s))

\* _get_site_code, lines 22-27
get_site_code(filename) == LastPart(Stem(filename))

\* lines 45-48 on one of the two frames: strip the column labels and the str cells
CleanFrame(d) ==
    LET cols == [i \in 1..Len(d.columns) |-> Strip(d.columns[i])]
    IN  [columns |-> cols,
         rows    |-> [i \in 1..Len(d.rows) |->
                        [c \in Range(cols) |->
                            str_strip(d.rows[i][CHOOSE x \in Range(d.columns) :
                                                    Strip(x) = c])]]]

RECURSIVE Flatten(_)
Flatten(ss) == IF ss = <<>> THEN <<>> ELSE Head(ss) \o Flatten(Tail(ss))

\* line 51: pd.merge(df_loc, df_art, on='ArtikelNr', how='left').  Every left row, in
\* order, once per right row with the same key (null keys match each other), or once
\* with null right cells; a label the two frames share besides the key gets the
\* suffixes _x and _y.
merge_left(left, right) ==
    LET shared == (Range(left.columns) \cap Range(right.columns)) \ {ArtikelNr}
        lname(c) == IF c \in shared THEN c \o Suffix_x ELSE c
        rname(c) == IF c \in shared THEN c \o Suffix_y ELSE c
        rcols  == SelectIdx(right.columns,
                            {i \in 1..Len(right.columns) : right.columns[i] # ArtikelNr}, 1)
        cols   == [i \in 1..Len(left.columns) |-> lname(left.columns[i])]
                  \o [i \in 1..Len(rcols) |-> rname(rcols[i])]
        joined(l, r, matched) ==
            [c \in Range(cols) |->
                IF \E x \in Range(left.columns) : lname(x) = c
                THEN l[CHOOSE x \in Range(left.columns) : lname(x) = c]
                ELSE IF ~matched THEN NaN
                ELSE r[CHOOSE x \in Range(rcols) : rname(x) = c]]
        matches(l) == SelectIdx(right.rows,
                                {j \in 1..Len(right.rows) :
                                    right.rows[j][ArtikelNr] = l[ArtikelNr]}, 1)
        expand(l) == IF matches(l) = <<>> THEN <<joined(l, l, FALSE)>>
                     ELSE [j \in 1..Len(matches(l)) |-> joined(l, matches(l)[j], TRUE)]
    IN  [columns |-> cols,
         rows    |-> Flatten([i \in 1..Len(left.rows) |-> expand(left.rows[i])])]

\* _load_raw_data, lines 29-51.  An input is [excel, csv]: what the two sheets of the
\* workbook and the two sibling flat files yield, each [ok, art, loc].
load_raw_data(input) ==
    IF ~input.excel.ok /\ ~input.csv.ok THEN Returned(EmptyFrame)
    ELSE LET src    == IF input.excel.ok THEN input.excel ELSE input.csv
             df_art == CleanFrame(src.art)
             df_loc == CleanFrame(src.loc)
         IN  IF ~Contains(df_art.columns, ArtikelNr) \/ ~Contains(df_loc.columns, ArtikelNr)
             THEN Raised
             ELSE Returned(merge_left(df_loc, df_art))

-----------------------------------------------------------------------------
(* The data the model runs on *)

\* Frame(cols, tuples): the frame with the given column labels and rows
Frame(cols, tuples) ==
    [columns |-> cols,
     rows    |-> [i \in 1..Len(tuples) |->
                    [c \in Range(cols) |-> tuples[i][ColumnIndex(cols, c)]]]]

N == <<"N">>
A1 == <<"A","1">>
A2 == <<"A","2">>
A3 == <<"A","3">>
A9 == <<"A","9">>
Naam == <<"N","a","a","m">>
Eenheid == <<"E","e","n","h","e","i","d">>
MAKTX == <<"M","A","K","T","X">>
MEINS == <<"M","E","I","N","S">>
EXTRA == <<"E","X","T","R","A">>
Missing == <<"M","i","s","s","i","n","g">>
Old == <<"O","l","d">>
New == <<"N","e","w">>
Long == <<"L","o","n","g">>
Short == <<"S","h","o","r","t">>
Units == <<"U","n","i","t","s">>
Names == <<"N","a","m","e","s">>
Nope == <<"N","o","p","e">>
kg == <<"k","g">>
box == <<"b","o","x">>
Gauze == <<"G","a","u","z","e">>
Tape == <<"T","a","p","e">>
Pad(s) == <<" ">> \o s \o <<" ">>

DayBefore == <<"2","0","2","3","-","1","2","-","3","1">>
Today == <<"2","0","2","4","-","0","1","-","0","1">>
DayAfter == <<"2","0","2","4","-","0","1","-","0","2">>
NotADate == <<"?","?">>

\* datetime.now(): noon of Today
Now == ParseDate(Today) + 12

MapFile == <<"m",".","x","l","s","x">>
NoFile == <<"n","o",".","x","l","s","x">>

\* The mapping folder: one workbook with two sheets.  Units has a padded header, a
\* key given twice (in two spellings), a null key and a null value.
MappingFolder ==
    [f \in {MapFile} |->
        [corrupt |-> FALSE,
         sheets  |-> << [name |-> Units, header |-> <<Pad(Old), New>>,
                         rows |-> << <<Pad(kg), <<"S","T">> >>,
                                     << <<"K","G">>, Pad(<<"P","C","E">>) >>,
                                     << NaN, <<"X">> >>,
                                     << <<"l">>, NaN >> >>],
                        [name |-> Names, header |-> <<Long, Short>>,
                         rows |-> << <<Gauze, <<"G","Z">> >>,
                                     << Tape, <<"T","a","p","e","-","X","L">> >> >>] >>]]

Templates ==
    { [readable |-> FALSE, header |-> <<>>],
      [readable |-> TRUE, header |-> <<MAKTX, Pad(MEINS), NumCell, WERKS>>],
      [readable |-> TRUE, header |-> <<MEINS, MAKTX>>],
      [readable |-> TRUE, header |-> <<EXTRA, WERKS, MAKTX>>] }

Disks == {[folder |-> MappingFolder, template |-> t] : t \in Templates}

LocStd == Frame(<<ArtikelNr, Actief, EindDat>>,
                << <<A1, J, NaN>>, <<A2, Pad(J), DayAfter>>, <<A3, N, NaN>>,
                   <<A9, J, NotADate>>, <<A1, J, DayBefore>> >>)
ArtStd == Frame(<<ArtikelNr, Pad(Naam), Eenheid>>,
                << <<A1, Gauze, Pad(kg)>>, <<A2, Pad(Tape), box>>, <<A3, Tape, NaN>> >>)
LocInactive == Frame(<<ArtikelNr, Actief, EindDat>>,
                     << <<A1, N, NaN>>, <<A2, J, DayBefore>> >>)
LocNoEindDat == Frame(<<ArtikelNr, Actief>>, << <<A1, J>> >>)
LocNoRows == Frame(<<ArtikelNr, Actief, EindDat>>, <<>>)
ArtNoKey == Frame(<<Naam, Eenheid>>, << <<Gauze, kg>> >>)

Unreadable == [ok |-> FALSE]
Source(art, loc) == [ok |-> TRUE, art |-> art, loc |-> loc]

\* The input files of the pipeline: the workbook and the sibling flat files
Inputs ==
    { [excel |-> Unreadable, csv |-> Unreadable],
      [excel |-> Unreadable, csv |-> Source(ArtStd, LocStd)],
      [excel |-> Source(ArtStd, LocStd), csv |-> Unreadable],
      [excel |-> Source(ArtStd, LocInactive), csv |-> Unreadable],
      [excel |-> Source(ArtStd, LocNoEindDat), csv |-> Unreadable],
      [excel |-> Source(ArtNoKey, LocStd), csv |-> Unreadable],
      [excel |-> Source(ArtStd, LocNoRows), csv |-> Source(ArtStd, LocStd)] }

MapRule(strategy) ==
    [type |-> "map", source |-> Eenheid, map_file |-> MapFile, sheet_name |-> Units,
     map_key |-> Old, map_value |-> New, fallback_strategy |-> strategy]

\* The configurations of the pipeline
Configs ==
    { [mappings |-> << <<WERKS, [type |-> "filename_extraction"]>>,
                       <<MAKTX, [type |-> "direct", source |-> Naam]>>,
                       <<MEINS, MapRule("error")>>,
                       <<EXTRA, MapRule("source_value")>> >>,
       custom_calculations |-> << [target_column |-> EXTRA,
                                   formula |-> [kind |-> "const", value |-> kg]] >>],
      [mappings |-> << <<MAKTX, [type |-> "direct", source |-> Missing]>>,
                       <<MEINS, MapRule("source_value")>> >>,
       custom_calculations |-> << [target_column |-> MAKTX,
                                   formula |-> [kind |-> "field", col |-> Naam]],
                                  [target_column |-> EXTRA,
                                   formula |-> [kind |-> "upper", col |-> Eenheid]] >>],
      [mappings |-> << <<WERKS, [type |-> "filename_extraction"]>> >>,
       custom_calculations |-> <<>>],
      [mappings |-> << <<MAKTX, [type |-> "logic_length", source |-> Naam,
                                 max_length |-> 4, map_file |-> MapFile,
                                 sheet_name |-> Names, map_key |-> Long,
                                 map_value |-> Short]>>,
                       <<EXTRA, [type |-> "unknown"]>>,
                       <<MEINS, [type |-> "map", source |-> Eenheid,
                                 map_file |-> NoFile, map_key |-> Old,
                                 map_value |-> New]>> >>],
      [custom_calculations |-> <<>>] }

FileNames ==
    { <<"a","_","Z","H","0","2",".","x","l","s","x">>,
      <<"b","_","c","_","Z","H","7",".","x","l","s","x">>,
      <<"_","Z","H",".","x","l","s","x">> }

\* the number of files a batch matches
MaxFiles == 2

\* the injective sequences over S of length at most n
RECURSIVE Arrangements(_, _)
Arrangements(S, n) ==
    IF n = 0 THEN {<<>>}
    ELSE LET shorter == Arrangements(S, n - 1)
         IN  shorter \cup {Append(q, x) : q \in shorter, x \in S}

Distinct(q) == \A i, j \in 1..Len(q) : i # j => q[i] # q[j]

FileLists == {q \in Arrangements(FileNames, MaxFiles) : Distinct(q)}

\* --date of the batch command line: absent, a date, or text that is no date
DateArgs == {NaN, DayAfter, NotADate}

-----------------------------------------------------------------------------
(* SAPDataConverter.run (lines 177-207), one action per stage, and the batch loop
   around it (run_batch.py, lines 21-52) *)

NoInput == [excel |-> Unreadable, csv |-> Unreadable]
NoRules == [evaluated |-> <<>>, failed |-> <<>>, resolves |-> <<>>]
NoCall == [key |-> <<>>, table |-> EmptyDict, read |-> FALSE, again |-> FALSE]
NoWatch == [key |-> <<>>, seen |-> FALSE, table |-> EmptyDict]

envVars == <<settings, disk>>
mapperVars == <<last_call, resolved>>
batchVars == <<files, idx, log_records, calls, pc>>

\* line 183: pd.to_datetime(date_override) if date_override else datetime.now()
resolve_date(override) ==
    IF override = NaN \/ override = <<>> THEN Returned(Now)
    ELSE IF ParseDate(override) = NaT THEN Raised
    ELSE Returned(ParseDate(override))

\* BatchExecutor.__init__, line 18: ref_date or datetime.now().strftime('%Y-%m-%d')
batch_ref_date(arg) == IF arg = NaN \/ arg = <<>> THEN Today ELSE arg

\* the locals of run before a call
RunIdle ==
    /\ stage = "idle"
    /\ ref_date = NaT
    /\ site_id = <<>>
    /\ input_data = NoInput
    /\ merged_data = EmptyFrame
    /\ clean_data = EmptyFrame
    /\ sap_data = EmptyFrame
    /\ final_data = EmptyFrame
    /\ ran = <<>>
    /\ rule_log = NoRules

Init ==
    /\ settings \in Configs
    /\ disk \in Disks
    /\ memory_cache = EmptyDict
    /\ last_call = NoCall
    /\ resolved = NoWatch
    /\ files \in FileLists
    /\ idx = 1
    /\ log_records = <<>>
    /\ calls = <<>>
    /\ pc = "start"
    /\ date_override \in {batch_ref_date(a) : a \in DateArgs}
    /\ RunIdle

\* run_batch.py lines 25-29: no matching file ends the batch without a log
Start ==
    /\ pc = "start"
    /\ pc' = IF files = <<>> THEN "done" ELSE "loop"
    /\ UNCHANGED <<envVars, mapperVars, memory_cache, files, idx, log_records, calls,
                   stage, date_override, ref_date, site_id, input_data, merged_data,
                   clean_data, sap_data, final_data, ran, rule_log>>

\* run_batch.py line 34 and processing.py lines 177-186: the call of run on the next
\* file, up to the site code
RunCall ==
    /\ pc = "loop" /\ idx <= Len(files) /\ stage = "idle"
    /\ calls' = Append(calls, files[idx])
    /\ LET d == resolve_date(date_override)
       IN  IF d.ok
           THEN /\ ref_date' = d.val
                /\ site_id' = get_site_code(files[idx])
                /\ stage' = "ingest"
           ELSE /\ stage' = "raised"
                /\ UNCHANGED <<ref_date, site_id>>
    /\ UNCHANGED <<envVars, mapperVars, memory_cache, files, idx, log_records, pc,
                   date_override, input_data, merged_data, clean_data, sap_data,
                   final_data, ran, rule_log>>

\* lines 188-191
Ingest ==
    /\ stage = "ingest"
    /\ \E inp \in Inputs :
          LET r == load_raw_data(inp)
          IN  /\ input_data' = inp
              /\ IF ~r.ok
                 THEN stage' = "raised" /\ UNCHANGED <<merged_data, final_data>>
                 ELSE /\ merged_data' = r.val
                      /\ IF IsEmpty(r.val)
                         THEN stage' = "returned" /\ final_data' = EmptyFrame
                         ELSE stage' = "filter" /\ UNCHANGED final_data
    /\ ran' = Append(ran, "ingest")
    /\ UNCHANGED <<envVars, mapperVars, batchVars, memory_cache, date_override, ref_date,
                   site_id, clean_data, sap_data, rule_log>>

\* lines 193-196
Filter ==
    /\ stage = "filter"
    /\ LET f == filter_active_records(merged_data, ref_date)
       IN  /\ merged_data' = f.df
           /\ IF ~f.out.ok
              THEN stage' = "raised" /\ UNCHANGED <<clean_data, final_data>>
              ELSE /\ clean_data' = f.out.val
                   /\ IF IsEmpty(f.out.val)
                      THEN stage' = "returned" /\ final_data' = EmptyFrame
                      ELSE stage' = "fields" /\ UNCHANGED final_data
    /\ ran' = Append(ran, "filter")
    /\ UNCHANGED <<envVars, mapperVars, batchVars, memory_cache, date_override, ref_date,
                   site_id, input_data, sap_data, rule_log>>

\* lines 198-199
ProcessFields ==
    /\ stage = "fields"
    /\ LET r == process_fields(settings, clean_data, site_id, memory_cache, disk.folder)
       IN  /\ sap_data' = r.target
           /\ memory_cache' = r.cache
           /\ rule_log' = [evaluated |-> r.evaluated, failed |-> r.failed,
                        resolves |-> r.resolves]
    /\ stage' = "calc"
    /\ ran' = Append(ran, "fields")
    /\ UNCHANGED <<envVars, mapperVars, batchVars, date_override, ref_date, site_id,
                   input_data, merged_data, clean_data, final_data>>

\* lines 201-202
RunCalculations ==
    /\ stage = "calc"
    /\ sap_data' = run_calculations(settings, clean_data, sap_data)
    /\ stage' = "template"
    /\ ran' = Append(ran, "calc")
    /\ UNCHANGED <<envVars, mapperVars, batchVars, memory_cache, date_override, ref_date,
                   site_id, input_data, merged_data, clean_data, final_data, rule_log>>

\* lines 204-207
EnforceTemplate ==
    /\ stage = "template"
    /\ final_data' = enforce_template(sap_data, site_id, disk.template)
    /\ stage' = "returned"
    /\ ran' = Append(ran, "template")
    /\ UNCHANGED <<envVars, mapperVars, batchVars, memory_cache, date_override, ref_date,
                   site_id, input_data, merged_data, clean_data, sap_data, rule_log>>

\* the locals of run go out of scope
RunReset ==
    /\ stage' = "idle"
    /\ ref_date' = NaT
    /\ site_id' = <<>>
    /\ input_data' = NoInput
    /\ merged_data' = EmptyFrame
    /\ clean_data' = EmptyFrame
    /\ sap_data' = EmptyFrame
    /\ final_data' = EmptyFrame
    /\ ran' = <<>>
    /\ rule_log' = NoRules

\* A loop that gives up at the first conversion that raises
LogResultAbort ==
    /\ pc = "loop" /\ stage \in {"returned", "raised"}
    /\ IF stage = "raised"
       THEN pc' = "done" /\ UNCHANGED <<log_records, idx>>
       ELSE /\ log_records' = Append(log_records, <<files[idx], "SUCCESS">>)
            /\ idx' = idx + 1
            /\ UNCHANGED pc
    /\ RunReset
    /\ UNCHANGED <<envVars, mapperVars, memory_cache, files, calls, date_override>>

\* run_batch.py lines 36-50: the rest of the loop body.  Writing the output file can
\* fail too; whatever is raised inside the try is logged as an ERROR line.
LogResult ==
    /\ pc = "loop" /\ stage \in {"returned", "raised"}
    /\ \E written \in BOOLEAN :
          log_records' = Append(log_records,
                                <<files[idx],
                                  IF stage = "returned" /\ written THEN "SUCCESS"
                                  ELSE "ERROR">>)
    /\ idx' = idx + 1
    /\ RunReset
    /\ UNCHANGED <<envVars, mapperVars, memory_cache, files, calls, pc, date_override>>

\* run_batch.py line 52: the loop is over, the summary log is written
Finish ==
    /\ pc = "loop" /\ idx > Len(files) /\ stage = "idle"
    /\ pc' = "done"
    /\ UNCHANGED <<envVars, mapperVars, memory_cache, files, idx, log_records, calls,
                   stage, date_override, ref_date, site_id, input_data, merged_data,
                   clean_data, sap_data, final_data, ran, rule_log>>

Next ==
    \/ Start
    \/ RunCall
    \/ Ingest
    \/ Filter
    \/ ProcessFields
    \/ RunCalculations
    \/ EnforceTemplate
    \/ LogResult
    \/ Finish

Spec == Init /\ [][Next]_vars

-----------------------------------------------------------------------------
(* The stages on their own: each specification below starts a stage of run on inputs
   drawn from a bounded set and applies that stage *)

\* no batch is running
NoBatch ==
    /\ files = <<>>
    /\ idx = 1
    /\ log_records = <<>>
    /\ calls = <<>>
    /\ pc = "done"
    /\ date_override = Today

NoMapperCall ==
    /\ memory_cache = EmptyDict
    /\ last_call = NoCall
    /\ resolved = NoWatch

\* the sequences over S of length at most n
RECURSIVE SeqsUpTo(_, _)
SeqsUpTo(S, n) ==
    IF n = 0 THEN {<<>>}
    ELSE LET shorter == SeqsUpTo(S, n - 1)
         IN  shorter \cup {Append(q, x) : q \in shorter, x \in S}

\* --- the active-record filter ---

\* the number of records of a frame given to the filter
MaxRows == 2

RowIds == <<A1, A2, A3, A9>>

FilterCells ==
    {<<a, e>> : a \in {J, N, NaN, <<"j">>},
                e \in {NaN, NotADate, DayBefore, Today, DayAfter}}

FilterFrames ==
    {Frame(<<ArtikelNr, Actief, EindDat>>,
           [i \in 1..Len(q) |-> <<RowIds[i], q[i][1], q[i][2]>>]) :
        q \in SeqsUpTo(FilterCells, MaxRows)}

RefDates == {ParseDate(Today), Now, ParseDate(DayAfter)}

InitFilter ==
    /\ settings = [custom_calculations |-> <<>>]
    /\ disk \in {d \in Disks : ~d.template.readable}
    /\ NoMapperCall
    /\ NoBatch
    /\ stage = "filter"
    /\ ref_date \in RefDates
    /\ site_id = ZH01
    /\ input_data = NoInput
    /\ merged_data \in FilterFrames
    /\ clean_data = EmptyFrame
    /\ sap_data = EmptyFrame
    /\ final_data = EmptyFrame
    /\ ran = <<"ingest">>
    /\ rule_log = NoRules

NextFilter == Filter

SpecFilter == InitFilter /\ [][NextFilter]_vars

\* --- the field rules ---

\* the number of rules of a configuration given to the field rules
MaxRules == 2

Gaze == <<"G","a","z","e">>
EA == <<"E","A">>

LengthRule(limit) ==
    [type |-> "logic_length", source |-> Naam, max_length |-> limit, map_file |-> MapFile,
     sheet_name |-> Names, map_key |-> Long, map_value |-> Short]

RulePool ==
    { [type |-> "filename_extraction"],
      [type |-> "direct", source |-> Naam],
      [type |-> "direct", source |-> Missing],
      [type |-> "map", source |-> Eenheid, map_file |-> MapFile, map_key |-> Old,
       map_value |-> New],
      MapRule("source_value"),
      MapRule("default_value"),
      [type |-> "map", source |-> Eenheid, map_file |-> MapFile, sheet_name |-> Units,
       map_key |-> Old, map_value |-> New, fallback_strategy |-> "default_value",
       default_value |-> EA],
      [type |-> "map", source |-> Eenheid, map_file |-> MapFile, sheet_name |-> Units,
       map_key |-> Nope, map_value |-> New, fallback_strategy |-> "source_value"],
      [type |-> "map", source |-> Eenheid, fallback_strategy |-> "skip"],
      [type |-> "map", map_file |-> MapFile, map_key |-> Old, map_value |-> New],
      LengthRule(3),
      LengthRule(4),
      [type |-> "logic_length", source |-> Naam, max_length |-> 3,
       fallback_strategy |-> "keep"],
      [type |-> "logic_length", source |-> Naam],
      [type |-> "logic_length", source |-> Naam, map_file |-> MapFile, map_key |-> Long],
      [type |-> "map", source |-> Eenheid, map_file |-> MapFile, sheet_name |-> Units,
       map_value |-> New],
      [type |-> "logic_length", source |-> Eenheid, max_length |-> 0,
       map_file |-> MapFile, sheet_name |-> Units, map_key |-> Old, map_value |-> New,
       fallback_strategy |-> "keep"] }

TargetNames == <<MAKTX, MEINS, EXTRA, WERKS>>

\* the value of 'mapping_folder': the directory of the workbooks of disk.folder
MapDir == <<"m","a","p","s">>

FieldConfigs ==
    {[mappings |-> [k \in 1..Len(q) |-> <<TargetNames[k], q[k]>>],
      mapping_folder |-> MapDir] :
        q \in SeqsUpTo(RulePool, MaxRules)}

FieldFrames ==
    { Frame(<<ArtikelNr, Naam, Eenheid>>,
            << <<A1, Gauze, Pad(kg)>>, <<A2, Pad(Tape), box>>,
               <<A3, NaN, NaN>>, <<A9, Pad(Gaze), <<"L">> >> >>),
      Frame(<<ArtikelNr, Naam, Eenheid>>, << <<A1, Tape, <<"K","g">> >> >>) }

InitFields ==
    /\ settings \in FieldConfigs
    /\ disk \in {d \in Disks : ~d.template.readable}
    /\ NoMapperCall
    /\ NoBatch
    /\ stage = "fields"
    /\ ref_date = Now
    /\ site_id = ZH01
    /\ input_data = NoInput
    /\ merged_data = EmptyFrame
    /\ clean_data \in FieldFrames
    /\ sap_data = EmptyFrame
    /\ final_data = EmptyFrame
    /\ ran = <<"ingest", "filter">>
    /\ rule_log = NoRules

NextFields == ProcessFields

SpecFields == InitFields /\ [][NextFields]_vars

\* --- the template alignment ---

\* the number of columns of a frame given to the alignment
MaxCols == 3

AlignRows == 0..2

\* the cell of row i under the k-th column: null in some places
AlignCell(i, k) == IF (i + k) % 3 = 0 THEN NaN ELSE <<"v", Digits[i + 1], Digits[k + 1]>>

AlignFrames ==
    {[columns |-> q,
      rows    |-> [i \in 1..n |-> [c \in Range(q) |-> AlignCell(i, ColumnIndex(q, c))]]] :
        q \in {a \in Arrangements({MAKTX, MEINS, EXTRA, WERKS}, MaxCols) : Distinct(a)},
        n \in AlignRows}

InitAlign ==
    /\ settings = [custom_calculations |-> <<>>]
    /\ disk \in Disks
    /\ NoMapperCall
    /\ NoBatch
    /\ stage = "template"
    /\ ref_date = Now
    /\ site_id = ZH01
    /\ input_data = NoInput
    /\ merged_data = EmptyFrame
    /\ clean_data = EmptyFrame
    /\ sap_data \in AlignFrames
    /\ final_data = EmptyFrame
    /\ ran = <<"ingest", "filter", "fields", "calc">>
    /\ rule_log = NoRules

NextAlign == EnforceTemplate

SpecAlign == InitAlign /\ [][NextAlign]_vars

\* --- the mapping service ---

MapperKeys ==
    {<<f, sh, k, v>> : f \in {MapFile, NoFile}, sh \in {FirstSheet, Names, Nope},
                       k \in {Old, Long}, v \in {New, Short}}

\* a call of get_mapping_dict on one MappingService with a key of Keys; resolved follows
\* one key, chosen at the start, and keeps the table its first resolve returned
ResolveIn(Keys) ==
    /\ \E key \in Keys :
          LET r == get_mapping_dict(memory_cache, disk.folder,
                                    key[1], key[2], key[3], key[4])
          IN  /\ memory_cache' = r.cache
              /\ last_call' = [key |-> key, table |-> r.table, read |-> r.read,
                               again |-> key = resolved.key /\ resolved.seen]
              /\ resolved' = IF key = resolved.key /\ ~resolved.seen
                             THEN [key |-> key, seen |-> TRUE, table |-> r.table]
                             ELSE resolved
    /\ UNCHANGED <<envVars, batchVars, stage, date_override, ref_date, site_id,
                   input_data, merged_data, clean_data, sap_data, final_data, ran,
                   rule_log>>

Resolve == ResolveIn(MapperKeys)

InitMapper ==
    /\ settings = [mapping_folder |-> <<>>]
    /\ disk \in {d \in Disks : ~d.template.readable}
    /\ memory_cache = EmptyDict
    /\ last_call = NoCall
    /\ resolved \in {[key |-> k, seen |-> FALSE, table |-> EmptyDict] : k \in MapperKeys}
    /\ NoBatch
    /\ RunIdle

NextMapper == Resolve

SpecMapper == InitMapper /\ [][NextMapper]_vars

\* --- the calculation pass ---

\* the number of calculations of a configuration given to the pass
MaxCalcs == 3

CalcPool ==
    { [target_column |-> EXTRA, formula |-> [kind |-> "const", value |-> kg]],
      [target_column |-> MAKTX, formula |-> [kind |-> "field", col |-> Naam]],
      [target_column |-> MAKTX, formula |-> [kind |-> "field", col |-> Missing]],
      [target_column |-> MEINS, formula |-> [kind |-> "upper", col |-> Eenheid]],
      [target_column |-> MAKTX, formula |-> [kind |-> "upper", col |-> Naam]],
      [target_column |-> EXTRA] }

CalcConfigs == {[custom_calculations |-> q] : q \in SeqsUpTo(CalcPool, MaxCalcs)}

CalcSources ==
    { Frame(<<ArtikelNr, Naam, Eenheid>>,
            << <<A1, Gauze, kg>>, <<A2, Tape, NaN>>, <<A3, NaN, box>> >>),
      Frame(<<ArtikelNr, Naam, Eenheid>>, << <<A1, Tape, box>> >>) }

\* what the field rules can have returned for a source: nothing, a column without rows,
\* or columns with one row per source record
CalcTargets(src) ==
    { EmptyFrame,
      [columns |-> <<WERKS>>, rows |-> <<>>],
      [columns |-> <<MAKTX, MEINS>>,
       rows    |-> [i \in 1..Len(src.rows) |->
                      [c \in {MAKTX, MEINS} |-> <<"o", Digits[i + 1]>>]]] }

InitCalc ==
    /\ settings \in CalcConfigs
    /\ disk \in {d \in Disks : ~d.template.readable}
    /\ NoMapperCall
    /\ NoBatch
    /\ stage = "calc"
    /\ ref_date = Now
    /\ site_id = ZH01
    /\ input_data = NoInput
    /\ merged_data = EmptyFrame
    /\ clean_data \in CalcSources
    /\ sap_data \in CalcTargets(clean_data)
    /\ final_data = EmptyFrame
    /\ ran = <<"ingest", "filter", "fields">>
    /\ rule_log = NoRules

NextCalc == RunCalculations

SpecCalc == InitCalc /\ [][NextCalc]_vars

\* --- the table of one sheet ---

\* the number of rows of the sheet a table is built from
MaxSheetRows == 3

\* a row of the sheet: a key cell and a value cell
SheetRows ==
    {<<k, v>> : k \in {NaN, <<" ">>, kg, Pad(<<"K","G">>)},
                v \in {NaN, <<"S","T">>, Pad(<<"P","C","E">>)}}

\* the sheets of at most n rows, with the columns in either order
TableSheets(n) ==
    {[name |-> Units, header |-> <<Pad(Old), New>>, rows |-> q] :
        q \in SeqsUpTo(SheetRows, n)}
    \cup
    {[name |-> Units, header |-> <<New, Old>>,
      rows |-> [i \in 1..Len(q) |-> <<q[i][2], q[i][1]>>]] :
        q \in SeqsUpTo(SheetRows, n)}

TableDisks(n) ==
    {[folder   |-> [f \in {MapFile} |-> [corrupt |-> FALSE, sheets |-> <<sh>>]],
      template |-> [readable |-> FALSE, header |-> <<>>]] : sh \in TableSheets(n)}

TableKey == <<MapFile, FirstSheet, Old, New>>

InitTable ==
    /\ settings = [mapping_folder |-> <<>>]
    /\ disk \in TableDisks(MaxSheetRows)
    /\ memory_cache = EmptyDict
    /\ last_call = NoCall
    /\ resolved = [key |-> TableKey, seen |-> FALSE, table |-> EmptyDict]
    /\ NoBatch
    /\ RunIdle

NextTable == ResolveIn({TableKey})

SpecTable == InitTable /\ [][NextTable]_vars

\* --- the site code ---

\* the number of characters of the name of a file given to run
MaxNameLen == 4

\* the names over three characters that are not dots only
SiteNames ==
    {n \in SeqsUpTo({"a", "_", "."}, MaxNameLen) : \E i \in 1..Len(n) : n[i] # "."}

\* run is called on one file of any name (the file picked in the GUI), with no date
InitSite ==
    /\ settings = [custom_calculations |-> <<>>]
    /\ disk \in {d \in Disks : ~d.template.readable}
    /\ NoMapperCall
    /\ files \in {<<name>> : name \in SiteNames}
    /\ idx = 1
    /\ log_records = <<>>
    /\ calls = <<>>
    /\ pc = "loop"
    /\ date_override = NaN
    /\ RunIdle

NextSite == RunCall

SpecSite == InitSite /\ [][NextSite]_vars

-----------------------------------------------------------------------------
(* Properties *)

Last(q) == q[Len(q)]

\* run has returned from its last statement (line 207), after the alignment
ReturnedAligned == stage = "returned" /\ ran # <<>> /\ Last(ran) = "template"

\* the template's validated column list; a template that cannot be read validates none
TemplateColumns ==
    IF disk.template.readable THEN valid_cols(disk.template.header) ELSE <<>>

\* C1 (as claimed): every record set run returns, whatever the input, the configuration
\* and the template, has exactly the template's validated column list as its columns,
\* in the template's order.
C1_EveryReturnHasTemplateColumns ==
    stage = "returned" => final_data.columns = TemplateColumns

\* C1 (amended): every record set run returns after the alignment stage, under a
\* template whose header can be read, has exactly the template's validated column list
\* as its columns, in the template's order, and every row has exactly those cells.
C1_AlignedReturnHasTemplateColumns ==
    (ReturnedAligned /\ disk.template.readable) =>
        /\ final_data.columns = TemplateColumns
        /\ \A i \in 1..Len(final_data.rows) :
              DOMAIN final_data.rows[i] = Range(TemplateColumns)

C1_Witness ==
    /\ ReturnedAligned /\ disk.template.readable
    /\ Len(final_data.rows) > 0
    /\ Range(sap_data.columns) \ Range(final_data.columns) # {}
    /\ Range(final_data.columns) \ Range(sap_data.columns) # {}

\* the field rules have run (lines 198-199)
FieldsDone == Contains(ran, "fields")

ColumnIs(df, col, v) ==
    /\ Contains(df.columns, col)
    /\ \A i \in 1..Len(df.rows) : df.rows[i][col] = v

\* C2 (as claimed): after _process_fields, the target column of every rule whose
\* evaluation raised holds "ERROR" in every row, the output has one row per filtered
\* source record, and every rule of the configuration was evaluated.
C2_FailedRuleColumnIsError ==
    (FieldsDone /\ stage = "calc") =>
        /\ rule_log.evaluated = [k \in 1..Len(settings.mappings) |-> settings.mappings[k][1]]
        /\ \A k \in 1..Len(rule_log.failed) :
              /\ ColumnIs(sap_data, rule_log.failed[k], ERROR)
              /\ Len(sap_data.rows) = Len(clean_data.rows)

\* C3 (as claimed): a second resolve of a key returns the table the first returned and
\* does not read the workbook, also when the first load failed.
C3_SecondResolveReadsNothing ==
    last_call.again => (~last_call.read /\ last_call.table = resolved.table)

\* the filter has run and returned (lines 193-194)
FilterDone == Contains(ran, "filter") /\ stage # "raised"

\* the records the claim lets pass, as positions of the frame given to the filter
ActivePositions ==
    {i \in 1..Len(merged_data.rows) :
        /\ merged_data.rows[i][Actief] = <<"J">>
        /\ \/ merged_data.rows[i][EindDat] = NaN
           \/ ParseDate(merged_data.rows[i][EindDat]) < 0
           \/ ParseDate(merged_data.rows[i][EindDat]) >= ref_date}

\* C4: the filter returns exactly the records whose Actief is 'J' and whose EindDat is
\* null, unparseable or on/after the reference date, in input order.
C4_FilterKeepsExactlyActive ==
    FilterDone =>
        /\ Len(clean_data.rows) = Cardinality(ActivePositions)
        /\ clean_data.rows = SelectIdx(merged_data.rows, ActivePositions, 1)

C4_Witness ==
    /\ FilterDone
    /\ Len(merged_data.rows) = 2
    /\ Len(clean_data.rows) = 1
    /\ merged_data.rows[1][Actief] = <<"J">> /\ merged_data.rows[1][EindDat] = DayBefore
    /\ clean_data.rows[1][EindDat] = NotADate

\* the table a lookup rule names, as the workbook gives it
TableOf(rule) ==
    IF Has(rule, "map_file")
    THEN get_mapping_dict(EmptyDict, disk.folder, rule["map_file"],
                          Get(rule, "sheet_name", FirstSheet), Get(rule, "map_key", NaN),
                          Get(rule, "map_value", NaN)).table
    ELSE EmptyDict

\* the rules of the given type whose evaluation did not raise, as positions
RulesOk(type) ==
    {k \in 1..Len(settings.mappings) :
        /\ Get(settings.mappings[k][2], "type", "None") = type
        /\ ~Contains(rule_log.failed, settings.mappings[k][1])}

\* what the claim says a map rule yields for the source cell v
C5_Expected(rule, v) ==
    LET key == IF v = NaN THEN <<>> ELSE Upper(Strip(v))
        t   == TableOf(rule)
        strategy == Get(rule, "fallback_strategy", "error")
    IN  IF key \in DOMAIN t THEN t[key]
        ELSE CASE strategy = "source_value" -> v
               [] strategy = "default_value" -> Get(rule, "default_value", <<>>)
               [] OTHER -> <<"E","R","R">>

\* C5: a map rule yields the table's value for the trimmed, upper-cased source value when
\* the table has it, else the source value, the configured default or 'ERR', by strategy.
C5_MapRuleFollowsFallback ==
    FieldsDone =>
        \A k \in RulesOk("map") :
            LET target == settings.mappings[k][1]
                rule   == settings.mappings[k][2]
            IN  /\ Contains(sap_data.columns, target)
                /\ Len(sap_data.rows) = Len(clean_data.rows)
                /\ \A i \in 1..Len(clean_data.rows) :
                      sap_data.rows[i][target]
                          = C5_Expected(rule, clean_data.rows[i][rule["source"]])

C5_Witness ==
    /\ FieldsDone
    /\ \E k \in RulesOk("map") :
          LET target == settings.mappings[k][1]
              rule   == settings.mappings[k][2]
          IN  /\ Get(rule, "fallback_strategy", "error") = "default_value"
              /\ Has(rule, "default_value")
              /\ Len(sap_data.rows) > 1
              /\ sap_data.rows[1][target] = <<"P","C","E">>
              /\ sap_data.rows[2][target] = rule["default_value"]

\* what the claim says a logic_length rule yields for the non-null source cell v
C6_Expected(rule, v) ==
    LET s == Strip(v)
        t == TableOf(rule)
        limit == Get(rule, "max_length", 40)
    IN  IF Len(s) <= limit THEN s
        ELSE IF Upper(s) \in DOMAIN t THEN t[Upper(s)]
        ELSE IF Get(rule, "fallback_strategy", "truncate") = "truncate"
        THEN [j \in 1..limit |-> s[j]]
        ELSE s

\* C6: a logic_length rule passes a trimmed value of at most max_length characters
\* unchanged; a longer one becomes its table value when its upper-cased form is a key,
\* else its first max_length characters under 'truncate', else stays as it is.
C6_LengthRuleFollowsLimit ==
    FieldsDone =>
        \A k \in RulesOk("logic_length") :
            LET target == settings.mappings[k][1]
                rule   == settings.mappings[k][2]
            IN  /\ Contains(sap_data.columns, target)
                /\ \A i \in 1..Len(clean_data.rows) :
                      clean_data.rows[i][rule["source"]] # NaN =>
                          sap_data.rows[i][target]
                              = C6_Expected(rule, clean_data.rows[i][rule["source"]])

C6_Witness ==
    /\ FieldsDone
    /\ \E k \in RulesOk("logic_length") :
          LET target == settings.mappings[k][1]
              rule   == settings.mappings[k][2]
          IN  /\ Get(rule, "max_length", 40) = 4
              /\ Len(sap_data.rows) = 4
              /\ sap_data.rows[1][target] = <<"G","Z">>
              /\ sap_data.rows[2][target] = Tape
              /\ clean_data.rows[2][rule["source"]] = Pad(Tape)

\* C7 (as claimed): an exception escapes run only from the ingestion stage.
C7_OnlyIngestionRaises ==
    stage = "raised" => (ran # <<>> /\ Last(ran) = "ingest")

BothSourcesFail == ~input_data.excel.ok /\ ~input_data.csv.ok

\* C8: when the workbook and the flat files both fail to load, ingestion yields the
\* empty record set and run returns an empty result having entered no later stage; when
\* the filter leaves no record, run returns an empty result having entered no stage
\* after the filter.
C8_EmptyShortCircuits ==
    /\ (Contains(ran, "ingest") /\ BothSourcesFail) =>
           /\ stage = "returned"
           /\ merged_data = EmptyFrame
           /\ final_data = EmptyFrame
           /\ ran = <<"ingest">>
    /\ (FilterDone /\ Len(clean_data.rows) = 0) =>
           /\ stage = "returned"
           /\ final_data = EmptyFrame
           /\ ran = <<"ingest", "filter">>

C8_Witness ==
    /\ stage = "returned" /\ ran = <<"ingest">> /\ BothSourcesFail
    /\ final_data = EmptyFrame

\* C9: the batch invokes run once per matched file, in order, also after a conversion
\* that raised, and when the loop is over the log holds one line per file, in order.
C9_OneCallAndOneLinePerFile ==
    /\ Len(calls) <= Len(files) /\ \A k \in 1..Len(calls) : calls[k] = files[k]
    /\ Len(log_records) <= Len(calls)
    /\ \A k \in 1..Len(log_records) : log_records[k][1] = files[k]
    /\ pc = "done" => (calls = files /\ Len(log_records) = Len(files))

C9_Witness ==
    /\ pc = "done" /\ Len(files) = 2
    /\ log_records[1][2] = "ERROR" /\ log_records[2][2] = "SUCCESS"

\* the alignment has run (lines 204-205)
AlignDone == ran # <<>> /\ Last(ran) = "template"

\* C10 (as claimed): under a readable template the aligned output has exactly the
\* template's validated columns in the template's order, the extra columns dropped,
\* and every column absent from the output before holds "" in every row.
C10_AbsentColumnsAreEmpty ==
    (AlignDone /\ disk.template.readable) =>
        /\ final_data.columns = TemplateColumns
        /\ \A c \in Range(TemplateColumns) \ Range(sap_data.columns) :
              ColumnIs(final_data, c, <<>>)

\* C10 (amended): as claimed, except that the column WERKS, present or absent before,
\* holds the site code in every row instead.
C10_AbsentColumnsAreEmptyButWERKS ==
    (AlignDone /\ disk.template.readable) =>
        /\ final_data.columns = TemplateColumns
        /\ Len(final_data.rows) = Len(sap_data.rows)
        /\ Range(sap_data.columns) \ Range(final_data.columns)
               = Range(sap_data.columns) \ Range(TemplateColumns)
        /\ \A c \in Range(TemplateColumns) \ Range(sap_data.columns) :
              ColumnIs(final_data, c, IF c = <<"W","E","R","K","S">> THEN site_id ELSE <<>>)
        /\ Contains(TemplateColumns, <<"W","E","R","K","S">>) =>
              ColumnIs(final_data, <<"W","E","R","K","S">>, site_id)

C10_Witness ==
    /\ AlignDone /\ disk.template.readable
    /\ Len(final_data.rows) = 2
    /\ Range(TemplateColumns) \subseteq Range(sap_data.columns)
    /\ Range(sap_data.columns) \ Range(TemplateColumns) # {}
    /\ sap_data.columns[1] = MAKTX /\ final_data.columns[1] = MEINS

\* C11 (as claimed): after _process_fields, the target column of every
\* filename_extraction rule holds the site code in every row, one row per filtered
\* source record, whatever the position of the rule, the first included.
C11_SiteCodeInEveryRow ==
    (FieldsDone /\ stage = "calc") =>
        \A k \in RulesOk("filename_extraction") :
            /\ ColumnIs(sap_data, settings.mappings[k][1], site_id)
            /\ Len(sap_data.rows) = Len(clean_data.rows)

\* C12 (as claimed): when the filter leaves at least one record, the record set that the
\* field rules, the calculations and the alignment produce has exactly one record per
\* filtered source record, for every configuration of rules.
C12_OneRecordPerFilteredRecord ==
    (ReturnedAligned /\ Len(clean_data.rows) > 0) =>
        /\ Len(sap_data.rows) = Len(clean_data.rows)
        /\ Len(final_data.rows) = Len(clean_data.rows)

\* C13 (as claimed): no stage changes a record set it received: the filter leaves the
\* ingested frame as it was, the calculation pass leaves the frame the field rules
\* returned as it was, and the alignment leaves the frame passed to it as it was.
\* (_run_calculations returns the very frame it was given, so sap_data names the one
\* object before and after the pass.)
C13_StagesLeaveInputsUnchanged ==
    [][ /\ stage = "filter" => merged_data' = merged_data
        /\ stage = "calc" => sap_data' = sap_data
        /\ stage = "template" => sap_data' = sap_data ]_vars

\* C14: an entry of the mapping cache is never replaced, removed or altered, and a
\* resolve of a key the cache holds, from an earlier run or from an earlier rule of the
\* same run, returns the cached table without reading the workbook.
C14_CacheEntriesAreKept ==
    [][ /\ \A k \in DOMAIN memory_cache :
              k \in DOMAIN memory_cache' /\ memory_cache'[k] = memory_cache[k]
        /\ stage = "fields" =>
              \A j \in 1..Len(rule_log'.resolves) :
                 LET c == rule_log'.resolves[j]
                 IN  (\/ c.key \in DOMAIN memory_cache
                      \/ /\ c.key \in DOMAIN memory_cache'
                         /\ \E i \in 1..(j - 1) : rule_log'.resolves[i].key = c.key)
                     => (~c.read /\ c.table = memory_cache'[c.key]) ]_vars

\* the second file of a batch resolves a key the first file's run cached
C14_Witness ==
    /\ Len(calls) = 2 /\ calls[1] # calls[2]
    /\ stage = "calc"
    /\ \E j \in 1..Len(rule_log.resolves) :
          /\ ~rule_log.resolves[j].read
          /\ rule_log.resolves[j].key \in DOMAIN memory_cache
          /\ rule_log.resolves[j].table = memory_cache[rule_log.resolves[j].key]
          /\ rule_log.resolves[j].table # EmptyDict

\* the sheet the table was built from, and its key and value cells row by row, null
\* read as the empty string
C15_Sheet == disk.folder[MapFile].sheets[1]
C15_Cell(i, name) ==
    LET c == C15_Sheet.rows[i][ColumnIndex(StrippedHeader(C15_Sheet), name)]
    IN  IF c = NaN THEN <<>> ELSE c
C15_Key(i) == Upper(Strip(C15_Cell(i, Old)))

\* C15: the table get_mapping_dict builds has exactly the non-empty normalized keys of
\* the sheet, none for a row whose trimmed, upper-cased key is empty, and for each key
\* the trimmed value of the last row that has it.
C15_TableIsLastWriteWins ==
    last_call.key = TableKey =>
        /\ <<>> \notin DOMAIN last_call.table
        /\ DOMAIN last_call.table = {C15_Key(i) : i \in 1..Len(C15_Sheet.rows)} \ {<<>>}
        /\ \A i \in 1..Len(C15_Sheet.rows) :
              (/\ C15_Key(i) # <<>>
               /\ \A j \in (i + 1)..Len(C15_Sheet.rows) : C15_Key(j) # C15_Key(i))
              => last_call.table[C15_Key(i)] = Strip(C15_Cell(i, New))

C15_Witness ==
    /\ last_call.key = TableKey
    /\ Len(C15_Sheet.rows) = 3
    /\ C15_Key(1) = <<"K","G">> /\ C15_Cell(1, New) = <<"S","T">>
    /\ C15_Key(2) = <<>>
    /\ C15_Key(3) = <<"K","G">> /\ C15_Cell(3, New) = Pad(<<"P","C","E">>)
    /\ last_call.table = [k \in {<<"K","G">>} |-> <<"P","C","E">>]

\* the calculation's formula raises on some row of the source
C16_Raises(c) ==
    \/ ~Has(c, "formula")
    \/ \E i \in 1..Len(clean_data.rows) : ~eval_formula(c["formula"], clean_data.rows[i]).ok

\* what the claim lets the pass do from calculation k on: a calculation whose formula
\* raises leaves the frame as it is, every other one assigns its target column
RECURSIVE C16_Expected(_, _, _)
C16_Expected(calcs, k, df) ==
    IF k > Len(calcs) THEN df
    ELSE C16_Expected(calcs, k + 1,
             IF C16_Raises(calcs[k]) THEN df
             ELSE SetSeries(df, calcs[k]["target_column"],
                      [i \in 1..Len(clean_data.rows) |->
                          eval_formula(calcs[k]["formula"], clean_data.rows[i]).val]))

\* C16: in _run_calculations a calculation whose formula raises on any row changes
\* nothing (its target column is neither added nor changed, not even in the rows
\* evaluated before the failure, and no other column changes), and every later
\* calculation is still evaluated.
C16_FailedCalculationChangesNothing ==
    [][ stage = "calc" =>
           sap_data' = C16_Expected(Get(settings, "custom_calculations", <<>>), 1, sap_data)
      ]_vars

C16_Witness ==
    /\ stage = "template"
    /\ Len(settings.custom_calculations) = 2
    /\ settings.custom_calculations[1]
          = [target_column |-> MEINS, formula |-> [kind |-> "upper", col |-> Eenheid]]
    /\ settings.custom_calculations[2]
          = [target_column |-> EXTRA, formula |-> [kind |-> "const", value |-> kg]]
    /\ Len(clean_data.rows) = 3
    /\ clean_data.rows[1][Eenheid] # NaN /\ clean_data.rows[2][Eenheid] = NaN
    /\ sap_data.columns = <<MAKTX, MEINS, EXTRA>>
    /\ sap_data.rows[1][MEINS] = <<"o", "1">>
    /\ sap_data.rows[3][EXTRA] = kg

\* the base name of the file run was called on, its extension removed
C17_BaseName == Stem(Last(calls))

\* C17 (as claimed): the site code is the part of the base name after its last '_', and
\* 'ZH01' when the base name has no '_'.
C17_SiteCodeOrFallback ==
    (calls # <<>> /\ stage = "ingest") =>
        LET seps == {i \in 1..Len(C17_BaseName) : C17_BaseName[i] = "_"}
        IN  site_id = IF seps = {} THEN <<"Z","H","0","1">>
                      ELSE SubSeq(C17_BaseName, SetMax(seps) + 1, Len(C17_BaseName))

\* what run goes on to return from the frame df of the rule stage: the calculations and
\* the alignment, whose statements the two programs share
C18_Output(df) ==
    enforce_template(run_calculations(settings, clean_data, df), site_id, disk.template)

\* C18 (as claimed): on the same filtered records, configuration, workbooks and
\* template, run_conversion returns what SAPDataConverter.run returns, or both raise.
\* (_process_fields never raises, so the legacy rule loop must not raise either.)
C18_LegacyReturnsTheSame ==
    (FieldsDone /\ stage = "calc") =>
        LET legacy == legacy_fields(settings, clean_data, site_id, disk.folder)
        IN  /\ legacy.ok
            /\ C18_Output(legacy.val) = C18_Output(sap_data)

====
